---- MODULE Spec2Model ----
(***************************************************************************)
(* Model of vault-db/mc2: the revision-checked Store and the per-client    *)
(* Cache of src/src/store.rs, driven by direct Store calls and by several  *)
(* caches sharing one Store.                                               *)
(*                                                                         *)
(* Option<X> is modelled as a sequence of length 0 (None) or 1 (Some(x)).  *)
(* A BTreeMap is a function whose DOMAIN is the set of keys it holds.      *)
(***************************************************************************)
EXTENDS Integers, Sequences, FiniteSets, TLC

\* Largest value of Store.seq the model explores.
MaxSeq == 3

\* The keys, in ascending (lexicographic) order, as BTreeMap iterates them.
KeyList == <<"x", "y">>

Keys == {KeyList[i] : i \in 1..Len(KeyList)}

Values == {"a", "b"}

Clients == {"A", "B"}

None == <<>>

Some(x) == <<x>>

\* Option::unwrap_or
unwrap_or(opt, default) == IF opt = None THEN default ELSE opt[1]

\* The expected revisions a caller of the Store can present.
RevArgs == {None} \cup {Some(r) : r \in 0..MaxSeq}

VARIABLES
    store,   \* Store { data: BTreeMap<String,(Rev,Option<T>)>, seq }
    caches,  \* caches[c] is Cache.data of client c
    last,    \* the call that was executed last, with what it returned
    succ,    \* history: succ[k] = number of successful mutations of key k
    own,     \* history: own[c][k] = Some(v) while c's last write/remove of k is an ok write of v
    miss,    \* history: miss[c][k] = a read of k by c returned none and the entry was not evicted or rewritten since
    after,   \* history: after[c][k] = "conflict" when c's last call on k conflicted, "reread" when it is a read following that
    stale,   \* history: stale[c][k] = k was successfully mutated since c last observed it (a read that reached the Store, or c's own ok write)
    track,   \* which history a run records: "laws" (succ, own, miss, after) or "updates" (stale)
    race,    \* the clients racing to create one key: the key, and <<client, value, result>> of each write in execution order
    scenario, \* RunnerScenario: the baseline store, the planner's orderings and the checker
    plans,    \* the Mutex<PlanQueue>: how many plans the iterator has yielded, and the worker holding the lock (0: none)
    workers,  \* workers[w]: the thread of worker w: its position in the loop and its locals
    main,     \* the thread of check_execution: its position, the workers it has joined, its result
    hist      \* history: the claims <<ordinal, worker>> in the order they were made, how often each plan was run to its end, and how many claims were made after some worker had recorded a Fail

\* The variables of the runner (src/src/runner.rs).
rvars == <<scenario, plans, workers, main, hist>>

\* The variables of the Store and the caches (src/src/store.rs).
svars == <<store, caches, last, succ, own, miss, after, stale, track, race>>

vars == <<svars, rvars>>

----------------------------------------------------------------------------
(* Store *)

\* Store::new
StoreNew == [data |-> <<>>, seq |-> 0]

\* The revision the Store holds for a key; a key the map does not hold counts as 0.
RevOf(st, key) == IF key \in DOMAIN st.data THEN st.data[key][1] ELSE 0

\* Store::get
StoreGet(st, key) ==
    IF key \in DOMAIN st.data /\ st.data[key][2] # None
    THEN Some(st.data[key][2][1])
    ELSE None

\* Store::read
StoreReadOf(st, key) ==
    IF key \in DOMAIN st.data /\ st.data[key][2] # None
    THEN Some(<<st.data[key][1], st.data[key][2][1]>>)
    ELSE None

\* set_key returning the revision it found instead of the one it stored.
set_key_returns_old_rev(st, key, rev, value) ==
    LET client_rev == unwrap_or(rev, 0)
        data1 == IF key \in DOMAIN st.data
                 THEN st.data
                 ELSE (key :> <<0, None>>) @@ st.data
        entry == data1[key]
    IN  IF entry[1] # client_rev
        THEN [data |-> data1, seq |-> st.seq, ret |-> None]
        ELSE [data |-> [data1 EXCEPT ![key] = <<entry[1] + 1, value>>],
              seq  |-> st.seq + 1,
              ret  |-> Some(entry[1])]

\* set_key storing the value before it compares the revisions.
set_key_stores_before_check(st, key, rev, value) ==
    LET client_rev == unwrap_or(rev, 0)
        data1 == IF key \in DOMAIN st.data
                 THEN st.data
                 ELSE (key :> <<0, None>>) @@ st.data
        entry == data1[key]
        data2 == [data1 EXCEPT ![key] = <<entry[1] + 1, value>>]
    IN  IF entry[1] # client_rev
        THEN [data |-> data2, seq |-> st.seq, ret |-> None]
        ELSE [data |-> data2, seq |-> st.seq + 1, ret |-> Some(entry[1] + 1)]

\* set_key counting the call in seq before it compares the revisions.
set_key_counts_before_check(st, key, rev, value) ==
    LET client_rev == unwrap_or(rev, 0)
        data1 == IF key \in DOMAIN st.data
                 THEN st.data
                 ELSE (key :> <<0, None>>) @@ st.data
        entry == data1[key]
    IN  IF entry[1] # client_rev
        THEN [data |-> data1, seq |-> st.seq + 1, ret |-> None]
        ELSE [data |-> [data1 EXCEPT ![key] = <<entry[1] + 1, value>>],
              seq  |-> st.seq + 1,
              ret  |-> Some(entry[1] + 1)]

\* set_key comparing revisions only when the caller presents one.
set_key_unchecked_without_rev(st, key, rev, value) ==
    LET data1 == IF key \in DOMAIN st.data
                 THEN st.data
                 ELSE (key :> <<0, None>>) @@ st.data
        entry == data1[key]
    IN  IF rev # None /\ entry[1] # rev[1]
        THEN [data |-> data1, seq |-> st.seq, ret |-> None]
        ELSE [data |-> [data1 EXCEPT ![key] = <<entry[1] + 1, value>>],
              seq  |-> st.seq + 1,
              ret  |-> Some(entry[1] + 1)]

\* Store::set_key; returns the store after the call and the value returned.
set_key(st, key, rev, value) ==
    LET client_rev == unwrap_or(rev, 0)
        \* self.data.entry(key.into()).or_insert((0, None))
        data1 == IF key \in DOMAIN st.data
                 THEN st.data
                 ELSE (key :> <<0, None>>) @@ st.data
        entry == data1[key]
    IN  IF entry[1] # client_rev
        THEN [data |-> data1, seq |-> st.seq, ret |-> None]
        ELSE [data |-> [data1 EXCEPT ![key] = <<entry[1] + 1, value>>],
              seq  |-> st.seq + 1,
              ret  |-> Some(entry[1] + 1)]

\* Store::write
StoreWriteOf(st, key, rev, value) == set_key(st, key, rev, Some(value))

\* Store::remove
StoreRemoveOf(st, key, rev) == set_key(st, key, rev, None)

\* Store::keys: the keys of the map in ascending order.
StoreKeysOf(st) == SelectSeq(KeyList, LAMBDA k : k \in DOMAIN st.data)

----------------------------------------------------------------------------
(* Cache *)

\* Cache::new
CacheNew == <<>>

\* Cache::get_rev
get_rev(data, key) ==
    IF key \in DOMAIN data /\ data[key] # None
    THEN Some(data[key][1][1])
    ELSE None

\* Cache::read fetching from the Store on every call.
CacheReadOf_always_fetches(data, st, key) ==
    LET data1 == (key :> StoreReadOf(st, key)) @@ data
    IN  [data  |-> data1,
         ret   |-> IF data1[key] # None THEN Some(data1[key][1][2]) ELSE None,
         fetch |-> TRUE]

\* Cache::read recording only the reads that find a value.
CacheReadOf_forgets_miss(data, st, key) ==
    LET fetch == key \notin DOMAIN data
        record == IF fetch THEN StoreReadOf(st, key) ELSE data[key]
    IN  [data  |-> IF fetch /\ record # None THEN (key :> record) @@ data ELSE data,
         ret   |-> IF record # None THEN Some(record[1][2]) ELSE None,
         fetch |-> fetch]

\* Cache::read; data is Cache.data. Returns the map after the call, the value
\* returned and whether the Store was consulted.
CacheReadOf(data, st, key) ==
    LET fetch == key \notin DOMAIN data
        data1 == IF fetch
                 THEN (key :> StoreReadOf(st, key)) @@ data
                 ELSE data
    IN  [data  |-> data1,
         ret   |-> IF data1[key] # None THEN Some(data1[key][1][2]) ELSE None,
         fetch |-> fetch]

\* BTreeMap::insert
MapInsert(data, key, v) == (key :> v) @@ data

\* BTreeMap::remove
MapRemove(data, key) == [k \in DOMAIN data \ {key} |-> data[k]]

\* Cache::write keeping its entry when the Store reports a conflict.
CacheWriteOf_keeps_on_conflict(data, st, key, value) ==
    LET old_rev == get_rev(data, key)
        w == StoreWriteOf(st, key, old_rev, value)
    IN  IF w.ret # None
        THEN [data |-> MapInsert(data, key, Some(<<w.ret[1], value>>)),
              store |-> [data |-> w.data, seq |-> w.seq],
              rev |-> old_rev, ret |-> TRUE]
        ELSE [data |-> data,
              store |-> [data |-> w.data, seq |-> w.seq],
              rev |-> old_rev, ret |-> FALSE]

\* Cache::write installing its value although the Store reported a conflict.
CacheWriteOf_installs_on_conflict(data, st, key, value) ==
    LET old_rev == get_rev(data, key)
        w == StoreWriteOf(st, key, old_rev, value)
    IN  IF w.ret # None
        THEN [data |-> MapInsert(data, key, Some(<<w.ret[1], value>>)),
              store |-> [data |-> w.data, seq |-> w.seq],
              rev |-> old_rev, ret |-> TRUE]
        ELSE [data |-> MapInsert(data, key, Some(<<unwrap_or(old_rev, 0) + 1, value>>)),
              store |-> [data |-> w.data, seq |-> w.seq],
              rev |-> old_rev, ret |-> FALSE]

\* Cache::write presenting the Store's current revision instead of the one
\* the cache remembers.
CacheWriteOf_overwrites(data, st, key, value) ==
    LET old_rev == Some(RevOf(st, key))
        w == StoreWriteOf(st, key, old_rev, value)
    IN  IF w.ret # None
        THEN [data |-> MapInsert(data, key, Some(<<w.ret[1], value>>)),
              store |-> [data |-> w.data, seq |-> w.seq],
              rev |-> old_rev, ret |-> TRUE]
        ELSE [data |-> MapRemove(data, key),
              store |-> [data |-> w.data, seq |-> w.seq],
              rev |-> old_rev, ret |-> FALSE]

\* Cache::write; returns the map and the store after the call, and the result.
CacheWriteOf(data, st, key, value) ==
    LET old_rev == get_rev(data, key)
        w == StoreWriteOf(st, key, old_rev, value)
    IN  IF w.ret # None
        THEN [data |-> MapInsert(data, key, Some(<<w.ret[1], value>>)),
              store |-> [data |-> w.data, seq |-> w.seq],
              rev |-> old_rev, ret |-> TRUE]
        ELSE [data |-> MapRemove(data, key),
              store |-> [data |-> w.data, seq |-> w.seq],
              rev |-> old_rev, ret |-> FALSE]

\* Cache::remove
CacheRemoveOf(data, st, key) ==
    LET old_rev == get_rev(data, key)
        w == StoreRemoveOf(st, key, old_rev)
    IN  IF w.ret # None
        THEN [data |-> MapInsert(data, key, None),
              store |-> [data |-> w.data, seq |-> w.seq],
              rev |-> old_rev, ret |-> TRUE]
        ELSE [data |-> MapRemove(data, key),
              store |-> [data |-> w.data, seq |-> w.seq],
              rev |-> old_rev, ret |-> FALSE]

----------------------------------------------------------------------------
(* The state machine *)

Call(op, c, key, rev, value, ret, fetch) ==
    [op |-> op, c |-> c, key |-> key, rev |-> rev, value |-> value,
     ret |-> ret, fetch |-> fetch]

\* The history stale after a successful mutation of key: every client's
\* last observation of key is now out of date.
Mutated(st, key) == [c \in DOMAIN st |-> [st[c] EXCEPT ![key] = TRUE]]

NoRace == [key |-> None, order |-> <<>>]

\* No scenario is being run.
RunnerIdle ==
    /\ scenario = None
    /\ plans = None
    /\ workers = None
    /\ main = None
    /\ hist = None

Init ==
    /\ store = StoreNew
    /\ caches = [c \in Clients |-> CacheNew]
    /\ last = Call("new", "-", "-", None, None, None, FALSE)
    /\ succ = [k \in Keys |-> 0]
    /\ own = [c \in Clients |-> [k \in Keys |-> None]]
    /\ miss = [c \in Clients |-> [k \in Keys |-> FALSE]]
    /\ after = [c \in Clients |-> [k \in Keys |-> "none"]]
    /\ stale = [c \in Clients |-> [k \in Keys |-> FALSE]]
    /\ track = "laws"
    /\ race = NoRace
    /\ RunnerIdle

\* store.read(key), called on the Store directly
StoreRead(key) ==
    /\ last' = Call("Store.read", "-", key, None, None, StoreReadOf(store, key), FALSE)
    /\ UNCHANGED <<store, caches, succ, own, miss, after, stale, track, race, rvars>>

\* store.keys().collect()
StoreKeys ==
    /\ last' = Call("Store.keys", "-", "-", None, None, StoreKeysOf(store), FALSE)
    /\ UNCHANGED <<store, caches, succ, own, miss, after, stale, track, race, rvars>>

\* store.write(key, rev, value), called on the Store directly
StoreWrite(key, rev, value) ==
    LET w == StoreWriteOf(store, key, rev, value)
    IN  /\ w.seq <= MaxSeq
        /\ store' = [data |-> w.data, seq |-> w.seq]
        /\ last' = Call("Store.write", "-", key, rev, Some(value), w.ret, FALSE)
        /\ succ' = IF w.ret # None THEN [succ EXCEPT ![key] = @ + 1] ELSE succ
        /\ UNCHANGED <<caches, own, miss, after, stale, track, race, rvars>>

\* store.remove(key, rev), called on the Store directly
StoreRemove(key, rev) ==
    LET w == StoreRemoveOf(store, key, rev)
    IN  /\ w.seq <= MaxSeq
        /\ store' = [data |-> w.data, seq |-> w.seq]
        /\ last' = Call("Store.remove", "-", key, rev, None, w.ret, FALSE)
        /\ succ' = IF w.ret # None THEN [succ EXCEPT ![key] = @ + 1] ELSE succ
        /\ UNCHANGED <<caches, own, miss, after, stale, track, race, rvars>>

\* cache.read(key) of client c
CacheRead(c, key) ==
    LET r == CacheReadOf(caches[c], store, key)
    IN  /\ caches' = [caches EXCEPT ![c] = r.data]
        /\ last' = Call("Cache.read", c, key, None, None, r.ret, r.fetch)
        /\ IF track = "laws"
           THEN /\ miss' = [miss EXCEPT ![c][key] = @ \/ r.ret = None]
                /\ after' = [after EXCEPT ![c][key] =
                                IF @ = "conflict" THEN "reread" ELSE "none"]
                /\ UNCHANGED stale
           ELSE /\ stale' = IF r.fetch THEN [stale EXCEPT ![c][key] = FALSE] ELSE stale
                /\ UNCHANGED <<miss, after>>
        /\ UNCHANGED <<store, succ, own, track, race, rvars>>

\* cache.write(key, value) of client c: its effect on the Store, the cache and
\* the histories.
CacheWriteCall(c, key, value) ==
    LET w == CacheWriteOf(caches[c], store, key, value)
    IN  /\ w.store.seq <= MaxSeq
        /\ store' = w.store
        /\ caches' = [caches EXCEPT ![c] = w.data]
        /\ last' = Call("Cache.write", c, key, w.rev, Some(value), w.ret, TRUE)
        /\ succ' = IF w.ret THEN [succ EXCEPT ![key] = @ + 1] ELSE succ
        /\ IF track = "laws"
           THEN /\ own' = [own EXCEPT ![c][key] = IF w.ret THEN Some(value) ELSE None]
                /\ miss' = [miss EXCEPT ![c][key] = FALSE]
                /\ after' = [after EXCEPT ![c][key] =
                                IF w.ret THEN "none" ELSE "conflict"]
                /\ UNCHANGED stale
           ELSE /\ stale' = IF w.ret
                            THEN [Mutated(stale, key) EXCEPT ![c][key] = FALSE]
                            ELSE stale
                /\ UNCHANGED <<own, miss, after>>
        /\ UNCHANGED track

\* cache.write(key, value) of client c
CacheWrite(c, key, value) ==
    /\ CacheWriteCall(c, key, value)
    /\ UNCHANGED <<race, rvars>>

\* cache.remove(key) of client c
CacheRemove(c, key) ==
    LET w == CacheRemoveOf(caches[c], store, key)
    IN  /\ w.store.seq <= MaxSeq
        /\ store' = w.store
        /\ caches' = [caches EXCEPT ![c] = w.data]
        /\ last' = Call("Cache.remove", c, key, w.rev, None, w.ret, TRUE)
        /\ succ' = IF w.ret THEN [succ EXCEPT ![key] = @ + 1] ELSE succ
        /\ IF track = "laws"
           THEN /\ own' = [own EXCEPT ![c][key] = None]
                /\ miss' = [miss EXCEPT ![c][key] = IF w.ret THEN @ ELSE FALSE]
                /\ after' = [after EXCEPT ![c][key] =
                                IF w.ret THEN "none" ELSE "conflict"]
                /\ UNCHANGED stale
           ELSE /\ stale' = IF w.ret THEN Mutated(stale, key) ELSE stale
                /\ UNCHANGED <<own, miss, after>>
        /\ UNCHANGED <<track, race, rvars>>

\* The Store driven directly through its public API.
NextStore ==
    \/ \E key \in Keys : StoreRead(key)
    \/ StoreKeys
    \/ \E key \in Keys, rev \in RevArgs, value \in Values : StoreWrite(key, rev, value)
    \/ \E key \in Keys, rev \in RevArgs : StoreRemove(key, rev)

SpecStore == Init /\ [][NextStore]_vars

\* Several caches sharing one Store, in any interleaving.
Next ==
    \/ \E c \in Clients, key \in Keys : CacheRead(c, key)
    \/ \E c \in Clients, key \in Keys, value \in Values : CacheWrite(c, key, value)
    \/ \E c \in Clients, key \in Keys : CacheRemove(c, key)

Spec == Init /\ [][Next]_vars

\* The same caches and Store, recording for every client and key whether the
\* key was mutated since the client last observed it.
InitUpdates ==
    /\ store = StoreNew
    /\ caches = [c \in Clients |-> CacheNew]
    /\ last = Call("new", "-", "-", None, None, None, FALSE)
    /\ succ = [k \in Keys |-> 0]
    /\ own = [c \in Clients |-> [k \in Keys |-> None]]
    /\ miss = [c \in Clients |-> [k \in Keys |-> FALSE]]
    /\ after = [c \in Clients |-> [k \in Keys |-> "none"]]
    /\ stale = [c \in Clients |-> [k \in Keys |-> FALSE]]
    /\ track = "updates"
    /\ race = NoRace
    /\ RunnerIdle

SpecUpdates == InitUpdates /\ [][Next]_vars

\* Clients with fresh caches that each write, once and without a prior read,
\* the same never-written key (tests::allows_multiple_clients_to_mutate_the_store).
Writers == {"A", "B", "C"}

InitRace ==
    /\ store = StoreNew
    /\ caches = [c \in Writers |-> CacheNew]
    /\ last = Call("new", "-", "-", None, None, None, FALSE)
    /\ succ = [k \in Keys |-> 0]
    /\ own = [c \in Writers |-> [k \in Keys |-> None]]
    /\ miss = [c \in Writers |-> [k \in Keys |-> FALSE]]
    /\ after = [c \in Writers |-> [k \in Keys |-> "none"]]
    /\ stale = [c \in Writers |-> [k \in Keys |-> FALSE]]
    /\ track = "laws"
    /\ race = NoRace
    /\ RunnerIdle

\* The one write of client c in the race.
RaceWrite(c, key, value) ==
    /\ \A i \in 1..Len(race.order) : race.order[i][1] # c
    /\ race.key \in {None, Some(key)}
    /\ CacheWriteCall(c, key, value)
    /\ race' = [key |-> Some(key),
                order |-> Append(race.order, <<c, value, last'.ret>>)]
    /\ UNCHANGED rvars

NextRace == \E c \in Writers, key \in Keys, value \in Values : RaceWrite(c, key, value)

SpecRace == InitRace /\ [][NextRace]_vars

----------------------------------------------------------------------------
(* Runner: RunnerScenario::check_execution (src/src/runner.rs) *)

\* const WORKER_COUNT
WORKER_COUNT == 4

WorkerIds == 1..WORKER_COUNT

\* Act: one plan step, tagged with its client.
Act(client_id, op, key, value) ==
    [client_id |-> client_id, op |-> op, key |-> key, value |-> value]

\* Actor::dispatch: executes the act's operation against the actor's cache.
dispatch(data, st, act) ==
    IF act.op = "read"
    THEN [data |-> CacheReadOf(data, st, act.key).data, store |-> st]
    ELSE IF act.op = "write"
    THEN LET w == CacheWriteOf(data, st, act.key, act.value)
         IN  [data |-> w.data, store |-> w.store]
    ELSE LET w == CacheRemoveOf(data, st, act.key)
         IN  [data |-> w.data, store |-> w.store]

\* The state of one plan execution: `state` (a RefCell<DbStore>) and `actors`
\* (one Actor, that is one Cache, per client), built on a clone of st.
Execution(st, clients) ==
    [state |-> st, actors |-> [c \in clients |-> CacheNew]]

\* actors.get_mut(&act.client_id).unwrap().dispatch(act)
DispatchTo(x, act) ==
    LET d == dispatch(x.actors[act.client_id], x.state, act)
    IN  [state |-> d.store,
         actors |-> [x.actors EXCEPT ![act.client_id] = d.data]]

RECURSIVE Replay(_, _, _)
\* The execution x after the first n acts of plan, dispatched in order by one
\* thread.
Replay(x, plan, n) ==
    IF n = 0 THEN x ELSE DispatchTo(Replay(x, plan, n - 1), plan[n])

\* Checker::check: the violations found in the store, none when it returns Ok.
\* A checker is the set of <<key, value>> the scenario forbids.
check(checker, st) ==
    SelectSeq(KeyList, LAMBDA k :
        StoreGet(st, k) # None /\ <<k, StoreGet(st, k)[1]>> \in checker)

\* Every plan of a sequence of plans with act in front.
RECURSIVE PrependAll(_, _)
PrependAll(act, ps) ==
    IF ps = <<>> THEN <<>>
    ELSE <<(<<act>> \o Head(ps))>> \o PrependAll(act, Tail(ps))

RECURSIVE OrderingsFrom(_, _)
\* Planner::orderings: the merges of the clients' act sequences that keep each
\* client's order, enumerated client by client from client i on.
OrderingsFrom(seqs, i) ==
    IF \A j \in 1..Len(seqs) : seqs[j] = <<>> THEN << <<>> >>
    ELSE IF i > Len(seqs) THEN <<>>
    ELSE (IF seqs[i] = <<>> THEN <<>>
          ELSE PrependAll(Head(seqs[i]),
                          OrderingsFrom([seqs EXCEPT ![i] = Tail(@)], 1)))
         \o OrderingsFrom(seqs, i + 1)

orderings(seqs) == OrderingsFrom(seqs, 1)

\* RunnerScenario::create_store: the first ordering of the setup acts,
\* dispatched by one actor on a new store.
create_store(setup) ==
    LET plan == orderings(<<setup>>)[1]
    IN  Replay(Execution(StoreNew, {"tmp"}), plan, Len(plan)).state

\* The scenarios explored: a setup, the acts of clients A and B, a checker.
Setups == { <<>>, <<Act("tmp", "write", "x", "a")>> }

ProgramsA == { <<Act("A", "write", "x", "b")>>,
               <<Act("A", "read", "x", None), Act("A", "write", "x", "b")>> }

ProgramsB == { <<Act("B", "write", "x", "a")>>,
               <<Act("B", "remove", "x", None)>>,
               <<Act("B", "write", "y", "b")>> }

Checkers == { {}, {<<"x", "b">>}, {<<"x", "a">>, <<"y", "b">>} }

\* TestResult::Pass
Pass(count) == [pass |-> TRUE, count |-> count]

\* TestResult::Fail
Fail(count, errors, plan, state, step) ==
    [pass |-> FALSE, count |-> count, errors |-> errors, plan |-> plan,
     state |-> state, step |-> step]

\* The locals n, plan, i and the execution of a worker that is not running a
\* plan are kept at these values.
NoExecution == [state |-> StoreNew, actors |-> <<>>]

\* A worker's locals: its position, the claimed (n, plan), the index i of the
\* act to dispatch, the execution (state, actors), and result.
Worker(pc, n, plan, i, x, result) ==
    [pc |-> pc, n |-> n, plan |-> plan, i |-> i, x |-> x, result |-> result]

\* check_execution up to the point where all workers are spawned.
InitRunner ==
    /\ store = StoreNew
    /\ caches = [c \in Clients |-> CacheNew]
    /\ last = Call("new", "-", "-", None, None, None, FALSE)
    /\ succ = [k \in Keys |-> 0]
    /\ own = [c \in Clients |-> [k \in Keys |-> None]]
    /\ miss = [c \in Clients |-> [k \in Keys |-> FALSE]]
    /\ after = [c \in Clients |-> [k \in Keys |-> "none"]]
    /\ stale = [c \in Clients |-> [k \in Keys |-> FALSE]]
    /\ track = "laws"
    /\ race = NoRace
    /\ \E setup \in Setups, a \in ProgramsA, b \in ProgramsB, checker \in Checkers :
          scenario = [store   |-> create_store(setup),
                      clients |-> {"A", "B"},
                      plans   |-> orderings(<<a, b>>),
                      checker |-> checker]
    /\ plans = [next |-> 0, lock |-> 0]
    /\ workers = [w \in WorkerIds |->
                    Worker("next_plan", 0, <<>>, 0, NoExecution, Pass(0))]
    /\ main = [pc |-> "join", worker |-> 1, result |-> Pass(0)]
    /\ hist = [claimed |-> <<>>,
               ran |-> [n \in 0..(Len(scenario.plans) - 1) |-> 0],
               after_fail |-> 0]

\* next_plan: plans.lock()
Lock(w) ==
    /\ workers[w].pc = "next_plan"
    /\ plans.lock = 0
    /\ plans' = [plans EXCEPT !.lock = w]
    /\ workers' = [workers EXCEPT ![w].pc = "locked"]
    /\ UNCHANGED <<scenario, main, hist, svars>>

\* next_plan yielding every second plan of the enumeration.
NextPlan_skips(w) ==
    /\ workers[w].pc = "locked"
    /\ plans.lock = w
    /\ IF plans.next < Len(scenario.plans)
       THEN LET n == plans.next
                plan == scenario.plans[n + 1]
            IN  /\ plans' = [next |-> n + 2, lock |-> 0]
                /\ hist' = [hist EXCEPT
                              !.claimed = Append(@, <<n, w>>),
                              !.ran[n] = IF plan = <<>> THEN @ + 1 ELSE @,
                              !.after_fail =
                                 IF \E v \in WorkerIds : ~workers[v].result.pass
                                 THEN @ + 1 ELSE @]
                /\ workers' = [workers EXCEPT ![w] =
                      IF plan = <<>>
                      THEN Worker("next_plan", 0, <<>>, 0, NoExecution, Pass(n + 1))
                      ELSE Worker("dispatch", n, plan, 0,
                                  Execution(scenario.store, scenario.clients),
                                  workers[w].result)]
       ELSE /\ plans' = [plans EXCEPT !.lock = 0]
            /\ workers' = [workers EXCEPT ![w].pc = "returned"]
            /\ UNCHANGED hist
    /\ UNCHANGED <<scenario, main, svars>>

\* next_plan keeping the lock when the enumeration is exhausted.
NextPlan_keeps_lock_at_end(w) ==
    /\ workers[w].pc = "locked"
    /\ plans.lock = w
    /\ IF plans.next < Len(scenario.plans)
       THEN LET n == plans.next
                plan == scenario.plans[n + 1]
            IN  /\ plans' = [next |-> n + 1, lock |-> 0]
                /\ hist' = [hist EXCEPT
                              !.claimed = Append(@, <<n, w>>),
                              !.ran[n] = IF plan = <<>> THEN @ + 1 ELSE @,
                              !.after_fail =
                                 IF \E v \in WorkerIds : ~workers[v].result.pass
                                 THEN @ + 1 ELSE @]
                /\ workers' = [workers EXCEPT ![w] =
                      IF plan = <<>>
                      THEN Worker("next_plan", 0, <<>>, 0, NoExecution, Pass(n + 1))
                      ELSE Worker("dispatch", n, plan, 0,
                                  Execution(scenario.store, scenario.clients),
                                  workers[w].result)]
       ELSE /\ plans' = plans
            /\ workers' = [workers EXCEPT ![w].pc = "returned"]
            /\ UNCHANGED hist
    /\ UNCHANGED <<scenario, main, svars>>

\* next_plan: .next() on the enumerated orderings, then the guard is dropped.
\* Some((n, plan)): clone the store, build the checker and the actors.
\* None: the worker returns its result.
NextPlan(w) ==
    /\ workers[w].pc = "locked"
    /\ plans.lock = w
    /\ IF plans.next < Len(scenario.plans)
       THEN LET n == plans.next
                plan == scenario.plans[n + 1]
            IN  /\ plans' = [next |-> n + 1, lock |-> 0]
                /\ hist' = [hist EXCEPT
                              !.claimed = Append(@, <<n, w>>),
                              !.ran[n] = IF plan = <<>> THEN @ + 1 ELSE @,
                              !.after_fail =
                                 IF \E v \in WorkerIds : ~workers[v].result.pass
                                 THEN @ + 1 ELSE @]
                /\ workers' = [workers EXCEPT ![w] =
                      IF plan = <<>>
                      THEN Worker("next_plan", 0, <<>>, 0, NoExecution, Pass(n + 1))
                      ELSE Worker("dispatch", n, plan, 0,
                                  Execution(scenario.store, scenario.clients),
                                  workers[w].result)]
       ELSE /\ plans' = [plans EXCEPT !.lock = 0]
            /\ workers' = [workers EXCEPT ![w].pc = "returned"]
            /\ UNCHANGED hist
    /\ UNCHANGED <<scenario, main, svars>>

\* The worker loop taking the snapshot of a Fail before it dispatches the act.
Dispatch_snapshots_before_act(w) ==
    /\ workers[w].pc = "dispatch"
    /\ LET me == workers[w]
           x == DispatchTo(me.x, me.plan[me.i + 1])
           errors == check(scenario.checker, x.state)
       IN  IF errors # <<>>
           THEN /\ workers' = [workers EXCEPT ![w] =
                      Worker("returned", 0, <<>>, 0, NoExecution,
                             Fail(me.n + 1, errors, me.plan, me.x.state, me.i))]
                /\ UNCHANGED hist
           ELSE IF me.i + 1 < Len(me.plan)
           THEN /\ workers' = [workers EXCEPT ![w].x = x, ![w].i = me.i + 1]
                /\ UNCHANGED hist
           ELSE /\ workers' = [workers EXCEPT ![w] =
                      Worker("next_plan", 0, <<>>, 0, NoExecution, Pass(me.n + 1))]
                /\ hist' = [hist EXCEPT !.ran[me.n] = @ + 1]
    /\ UNCHANGED <<scenario, plans, main, svars>>

\* The worker loop going on to the next plan after it recorded a Fail.
Dispatch_continues_after_fail(w) ==
    /\ workers[w].pc = "dispatch"
    /\ LET me == workers[w]
           x == DispatchTo(me.x, me.plan[me.i + 1])
           errors == check(scenario.checker, x.state)
       IN  IF errors # <<>>
           THEN /\ workers' = [workers EXCEPT ![w] =
                      Worker("next_plan", 0, <<>>, 0, NoExecution,
                             Fail(me.n + 1, errors, me.plan, x.state, me.i))]
                /\ UNCHANGED hist
           ELSE IF me.i + 1 < Len(me.plan)
           THEN /\ workers' = [workers EXCEPT ![w].x = x, ![w].i = me.i + 1]
                /\ UNCHANGED hist
           ELSE /\ workers' = [workers EXCEPT ![w] =
                      Worker("next_plan", 0, <<>>, 0, NoExecution, Pass(me.n + 1))]
                /\ hist' = [hist EXCEPT !.ran[me.n] = @ + 1]
    /\ UNCHANGED <<scenario, plans, main, svars>>

\* The worker loop dispatching on the scenario's store instead of a clone.
Dispatch_on_shared_store(w) ==
    /\ workers[w].pc = "dispatch"
    /\ LET me == workers[w]
           x == DispatchTo([me.x EXCEPT !.state = scenario.store], me.plan[me.i + 1])
           errors == check(scenario.checker, x.state)
       IN  /\ scenario' = [scenario EXCEPT !.store = x.state]
           /\ IF errors # <<>>
              THEN /\ workers' = [workers EXCEPT ![w] =
                         Worker("returned", 0, <<>>, 0, NoExecution,
                                Fail(me.n + 1, errors, me.plan, x.state, me.i))]
                   /\ UNCHANGED hist
              ELSE IF me.i + 1 < Len(me.plan)
              THEN /\ workers' = [workers EXCEPT ![w].x = x, ![w].i = me.i + 1]
                   /\ UNCHANGED hist
              ELSE /\ workers' = [workers EXCEPT ![w] =
                         Worker("next_plan", 0, <<>>, 0, NoExecution, Pass(me.n + 1))]
                   /\ hist' = [hist EXCEPT !.ran[me.n] = @ + 1]
    /\ UNCHANGED <<plans, main, svars>>

\* One turn of `for (i, act) in plan.iter().enumerate()`: dispatch the act,
\* run the checker; return Fail on a violation, record Pass after the last act.
Dispatch(w) ==
    /\ workers[w].pc = "dispatch"
    /\ LET me == workers[w]
           x == DispatchTo(me.x, me.plan[me.i + 1])
           errors == check(scenario.checker, x.state)
       IN  IF errors # <<>>
           THEN /\ workers' = [workers EXCEPT ![w] =
                      Worker("returned", 0, <<>>, 0, NoExecution,
                             Fail(me.n + 1, errors, me.plan, x.state, me.i))]
                /\ UNCHANGED hist
           ELSE IF me.i + 1 < Len(me.plan)
           THEN /\ workers' = [workers EXCEPT ![w].x = x, ![w].i = me.i + 1]
                /\ UNCHANGED hist
           ELSE /\ workers' = [workers EXCEPT ![w] =
                      Worker("next_plan", 0, <<>>, 0, NoExecution, Pass(me.n + 1))]
                /\ hist' = [hist EXCEPT !.ran[me.n] = @ + 1]
    /\ UNCHANGED <<scenario, plans, main, svars>>

\* The join loop keeping the result of the last worker it joined.
Join_keeps_last_pass ==
    /\ main.pc = "join"
    /\ workers[main.worker].pc = "returned"
    /\ LET worker_result == workers[main.worker].result
       IN  IF worker_result.pass
           THEN main' = [pc |-> IF main.worker = WORKER_COUNT THEN "exit" ELSE "join",
                         worker |-> main.worker + 1,
                         result |-> worker_result]
           ELSE main' = [pc |-> "exit", worker |-> main.worker + 1,
                         result |-> worker_result]
    /\ UNCHANGED <<scenario, plans, workers, hist, svars>>

\* The join loop comparing counts without looking at is_pass.
Join_prefers_count ==
    /\ main.pc = "join"
    /\ workers[main.worker].pc = "returned"
    /\ LET worker_result == workers[main.worker].result
       IN  main' = [pc |-> IF main.worker = WORKER_COUNT THEN "exit" ELSE "join",
                    worker |-> main.worker + 1,
                    result |-> IF worker_result.count > main.result.count
                               THEN worker_result
                               ELSE main.result]
    /\ UNCHANGED <<scenario, plans, workers, hist, svars>>

\* One turn of `for worker in workers`: worker.join().unwrap(), then keep the
\* largest Pass or return the Fail.
Join ==
    /\ main.pc = "join"
    /\ workers[main.worker].pc = "returned"
    /\ LET worker_result == workers[main.worker].result
       IN  IF worker_result.pass
           THEN main' = [pc |-> IF main.worker = WORKER_COUNT THEN "exit" ELSE "join",
                         worker |-> main.worker + 1,
                         result |-> IF worker_result.count > main.result.count
                                    THEN worker_result
                                    ELSE main.result]
           ELSE main' = [pc |-> "exit", worker |-> main.worker + 1,
                         result |-> worker_result]
    /\ UNCHANGED <<scenario, plans, workers, hist, svars>>

\* The end of thread::scope: it returns the closure's result once every
\* spawned thread has finished.
ScopeExit ==
    /\ main.pc = "exit"
    /\ \A w \in WorkerIds : workers[w].pc = "returned"
    /\ main' = [main EXCEPT !.pc = "done"]
    /\ UNCHANGED <<scenario, plans, workers, hist, svars>>

NextRunner ==
    \/ \E w \in WorkerIds : Lock(w)
    \/ \E w \in WorkerIds : NextPlan(w)
    \/ \E w \in WorkerIds : Dispatch(w)
    \/ Join
    \/ ScopeExit

SpecRunner == InitRunner /\ [][NextRunner]_vars

\* The threads are scheduled fairly: a thread that can take its next step
\* for ever takes it. A worker waiting for the lock is not promised the lock
\* while other workers keep taking it (std::sync::Mutex is not fair).
FairRunner ==
    /\ \A w \in WorkerIds :
          WF_vars(Lock(w)) /\ WF_vars(NextPlan(w)) /\ WF_vars(Dispatch(w))
    /\ WF_vars(Join)
    /\ WF_vars(ScopeExit)

SpecRunnerFair == SpecRunner /\ FairRunner

----------------------------------------------------------------------------
(* Properties of the Store (SpecStore) *)

StoreMutators == {"Store.write", "Store.remove"}

RECURSIVE SumRevs(_, _)
\* The sum of f over the first n keys of KeyList.
SumRevs(f, n) == IF n = 0 THEN 0 ELSE f[KeyList[n]] + SumRevs(f, n - 1)

\* C1: Store.write and Store.remove succeed exactly when the expected revision
\* (none read as 0) equals the key's stored revision (absent read as 0, a
\* tombstone as its last revision); a successful call stores the value (a
\* tombstone for remove) at the old revision + 1, adds exactly 1 to seq and
\* returns the new revision.
C1_RevisionCheckedMutation ==
    [][ last'.op \in StoreMutators =>
          LET key == last'.key
              cur == RevOf(store, key)
          IN  /\ (last'.ret # None) <=> (unwrap_or(last'.rev, 0) = cur)
              /\ last'.ret # None =>
                    /\ last'.ret = Some(cur + 1)
                    /\ key \in DOMAIN store'.data
                    /\ store'.data[key] = <<cur + 1, last'.value>>
                    /\ store'.seq = store.seq + 1
      ]_vars

\* A never-written key was removed at revision 0 after another key had been
\* written: the call returned 1 and left a tombstone at revision 1.
C1_Witness ==
    /\ last.op = "Store.remove"
    /\ last.rev = Some(0)
    /\ last.ret = Some(1)
    /\ store.data[last.key] = <<1, None>>
    /\ store.seq = 2

\* C2: a Store.write or Store.remove that returns conflict leaves the whole
\* store as it was: the map, the set of keys it holds, and seq.
C2_ConflictLeavesStoreIdentical ==
    [][ (last'.op \in StoreMutators /\ last'.ret = None) => store' = store ]_vars

\* C3: the stored revision of each key equals the number of successful
\* mutations of that key; a revision never decreases and grows by exactly 1
\* with each successful mutation of its key.
C3_RevCountsSuccessfulMutations ==
    /\ [](\A k \in Keys : RevOf(store, k) = succ[k])
    /\ [][ /\ \A k \in Keys : RevOf(store', k) >= RevOf(store, k)
           /\ (last'.op \in StoreMutators /\ last'.ret # None) =>
                 RevOf(store', last'.key) = RevOf(store, last'.key) + 1
       ]_vars

\* A conflicting call on a key that has been mutated twice, next to a key
\* mutated once.
C3_Witness ==
    /\ last.op \in StoreMutators
    /\ last.ret = None
    /\ succ[last.key] = 2
    /\ \E k \in Keys \ {last.key} : succ[k] = 1

\* C4: seq equals the number of calls that succeeded on all keys together,
\* which is the sum of the keys' revisions; a conflicting call leaves seq
\* unchanged.
C4_SeqCountsSuccessfulMutations ==
    /\ [](/\ store.seq = SumRevs(succ, Len(KeyList))
          /\ store.seq = SumRevs([k \in Keys |-> RevOf(store, k)], Len(KeyList)))
    /\ [][ (last'.op \in StoreMutators /\ last'.ret = None) =>
              store'.seq = store.seq ]_vars

\* A conflicting call on a store whose two keys have both been mutated.
C4_Witness ==
    /\ last.op \in StoreMutators
    /\ last.ret = None
    /\ store.seq = 3
    /\ \A k \in Keys : succ[k] > 0

\* C5: Store.keys() yields, in ascending order, exactly the keys that have had
\* at least one successful write or remove.
C5_KeysAreTheMutatedKeys ==
    last.op = "Store.keys" =>
        last.ret = SelectSeq(KeyList, LAMBDA k : succ[k] > 0)

----------------------------------------------------------------------------
(* Properties of the Cache (Spec) *)

CacheMutators == {"Cache.write", "Cache.remove"}

\* C6: read-after-write: while a cache's last write/remove of k is an ok
\* write of v, each read of k by that cache returns v from its local map,
\* without consulting the Store, whatever other clients did to k meanwhile.
C6_ReadAfterWrite ==
    (last.op = "Cache.read" /\ own[last.c][last.key] # None) =>
        /\ last.ret = own[last.c][last.key]
        /\ ~last.fetch

\* A cache reads back its own value after another client has replaced the
\* value in the Store.
C6_Witness ==
    /\ last.op = "Cache.read"
    /\ own[last.c][last.key] # None
    /\ StoreGet(store, last.key) # None
    /\ StoreGet(store, last.key) # own[last.c][last.key]

\* C7: a cached miss is sticky: once a read of k by a cache returned none, its
\* reads of k keep returning none until its entry is evicted by a conflict or
\* replaced by its own successful write, whatever others write to the Store.
C7_CachedMissIsSticky ==
    (last.op = "Cache.read" /\ miss[last.c][last.key]) => last.ret = None

\* A cache reads none from its local map while the Store holds a value.
C7_Witness ==
    /\ last.op = "Cache.read"
    /\ miss[last.c][last.key]
    /\ ~last.fetch
    /\ last.ret = None
    /\ StoreGet(store, last.key) # None

\* C8: a conflict reported by Cache.write or Cache.remove leaves the Store
\* unchanged and evicts the cache's entry for the key; the cache's next read
\* of the key fetches and returns the Store's current value.
C8_ConflictInvalidates ==
    /\ [][ (last'.op \in CacheMutators /\ ~last'.ret) =>
              /\ store' = store
              /\ last'.key \notin DOMAIN caches'[last'.c]
       ]_vars
    /\ []( (last.op = "Cache.read" /\ after[last.c][last.key] = "reread") =>
              /\ last.fetch
              /\ last.ret = StoreGet(store, last.key) )

\* The read that follows a conflict returns the value another client stored.
C8_Witness ==
    /\ last.op = "Cache.read"
    /\ after[last.c][last.key] = "reread"
    /\ last.ret # None
    /\ RevOf(store, last.key) = 2

\* C9: recovery: after a conflict on k, a read of k followed by a write of k
\* by the same cache succeeds when nobody mutates k between the two.
C9_RecoveryAfterConflict ==
    [][ ( /\ last.op = "Cache.read"
          /\ after[last.c][last.key] = "reread"
          /\ last'.op = "Cache.write"
          /\ last'.c = last.c
          /\ last'.key = last.key ) => last'.ret
      ]_vars

\* C10: after an ok Cache.remove the cache holds the tombstone's revision:
\* the revision it presents on its next write or remove of the key is the
\* Store's current revision of the key.
C10_RemoveRecordsNewRev ==
    (last.op = "Cache.remove" /\ last.ret) =>
        unwrap_or(get_rev(caches[last.c], last.key), 0) = RevOf(store, last.key)

\* C11: in every state reached by interleaved reads, writes and removes of
\* several caches on one Store, no cache holds for a key a revision greater
\* than the Store's, and an entry whose revision equals the Store's holds the
\* Store's current value.
C11_CacheNeverAheadOfStore ==
    \A c \in Clients, k \in Keys :
        LET r == get_rev(caches[c], k)
        IN  r # None =>
              /\ r[1] <= RevOf(store, k)
              /\ r[1] = RevOf(store, k) =>
                    StoreGet(store, k) = Some(caches[c][k][1][2])

\* One cache holds the current revision and value of a key while another
\* holds an older revision of it with another value.
C11_Witness ==
    \E c, d \in Clients, k \in Keys :
        /\ get_rev(caches[c], k) = Some(RevOf(store, k))
        /\ get_rev(caches[d], k) # None
        /\ get_rev(caches[d], k)[1] < RevOf(store, k)
        /\ caches[d][k][1][2] # caches[c][k][1][2]

\* C19: no lost update: a Cache.write or Cache.remove returns ok only if the
\* key was not successfully mutated since this cache last observed it (its
\* last read that reached the Store, its own last ok write, or the creation of
\* the store if neither happened); otherwise it reports a conflict and the
\* Store keeps what it held.
C19_NoLostUpdate ==
    [][ last'.op \in CacheMutators =>
          /\ last'.ret => ~stale[last'.c][last'.key]
          /\ stale[last'.c][last'.key] => (~last'.ret /\ store' = store)
      ]_vars

\* A cache that wrote a key conflicts on it after another client replaced the
\* value, and the Store still holds the other client's value.
C19_Witness ==
    /\ last.op \in CacheMutators
    /\ ~last.ret
    /\ stale[last.c][last.key]
    /\ RevOf(store, last.key) = 2
    /\ \E d \in Clients \ {last.c} :
          /\ get_rev(caches[d], last.key) = Some(2)
          /\ StoreGet(store, last.key) = Some(caches[d][last.key][1][2])

\* C12: when several clients with fresh caches each write the same
\* never-written key without a prior read, the first write executed returns
\* ok and every other one is reported as a conflict; the Store holds the first
\* writer's value at revision 1 and seq counts that one mutation.
C12_FirstWriterWins ==
    race.order # <<>> =>
        /\ race.order[1][3]
        /\ \A i \in 2..Len(race.order) : ~race.order[i][3]
        /\ store.data = (race.key[1] :> <<1, Some(race.order[1][2])>>)
        /\ store.seq = 1

\* All clients have written, the later ones with another value than the first.
C12_Witness ==
    /\ Len(race.order) = Cardinality(Writers)
    /\ \A i \in 2..Len(race.order) : race.order[i][2] # race.order[1][2]
    /\ StoreGet(store, race.key[1]) = Some(race.order[1][2])

----------------------------------------------------------------------------
(* Properties of the Runner (SpecRunner) *)

\* A plan execution as check_execution starts it: a clone of the baseline
\* store and a fresh cache for every client.
Baseline == Execution(scenario.store, scenario.clients)

\* The checker reports a violation after the first n acts of plan, replayed
\* by one thread on the baseline.
ViolatedAt(plan, n) == check(scenario.checker, Replay(Baseline, plan, n).state) # <<>>

\* The plan makes the checker report a violation at some step.
Fails(plan) == \E n \in 1..Len(plan) : ViolatedAt(plan, n)

PlanCount == Len(scenario.plans)

Ordinals == 0..(PlanCount - 1)

\* C13: when the checker returns ok after every step of every plan, the
\* runner reports PASS with count equal to the number of plans, however the
\* workers interleave.
C13_AllPassReportsPlanCount ==
    (main.pc = "done" /\ \A n \in Ordinals : ~Fails(scenario.plans[n + 1])) =>
        /\ PlanCount >= 1
        /\ main.result = Pass(PlanCount)

\* A passing scenario of three plans, claimed by three different workers, the
\* last plan not by the last worker joined.
C13_Witness ==
    /\ main.pc = "done"
    /\ main.result = Pass(3)
    /\ Cardinality({hist.claimed[i][2] : i \in 1..Len(hist.claimed)}) = 3
    /\ hist.claimed[3][2] # WORKER_COUNT

\* C14: when at least one plan makes the checker report a violation, the
\* runner reports FAIL, however the workers interleave.
C14_FailingPlanReportsFail ==
    (main.pc = "done" /\ \E n \in Ordinals : Fails(scenario.plans[n + 1])) =>
        ~main.result.pass

\* A failing scenario in which the first worker joined passed some plan and a
\* later worker returned the Fail.
C14_Witness ==
    /\ main.pc = "done"
    /\ ~main.result.pass
    /\ workers[1].result.pass
    /\ workers[1].result.count > 0

\* The Fail r reproduces a failing plan.
Faithful(r) ==
    /\ r.count - 1 \in Ordinals
    /\ r.plan = scenario.plans[r.count]
    /\ r.step + 1 \in 1..Len(r.plan)
    /\ ViolatedAt(r.plan, r.step + 1)
    /\ \A n \in 1..r.step : ~ViolatedAt(r.plan, n)
    /\ r.state = Replay(Baseline, r.plan, r.step + 1).state
    /\ r.errors = check(scenario.checker, r.state)

\* C15: every Fail, of a worker or of the scenario, names a plan that fails:
\* count is its ordinal + 1, plan is the plan of that ordinal, step the first
\* index at which the checker reports a violation, state the store after
\* acts 0..step of the plan replayed by one thread on the baseline.
C15_FailIsFaithfulReproducer ==
    /\ \A w \in WorkerIds : ~workers[w].result.pass => Faithful(workers[w].result)
    /\ ~main.result.pass => Faithful(main.result)

\* The scenario reports the failure of its third plan at its last act, while
\* its first plan fails too.
C15_Witness ==
    /\ main.pc = "done"
    /\ ~main.result.pass
    /\ main.result.count = 3
    /\ main.result.step = 2
    /\ Fails(scenario.plans[1])

\* C16 as claimed: once some worker has recorded a Fail, no worker claims a
\* further plan.
C16_NoClaimAfterFail ==
    [][ (\E w \in WorkerIds : ~workers[w].result.pass) =>
            hist'.claimed = hist.claimed ]_vars

\* C16 as amended: a worker that recorded a Fail has returned and claims no
\* further plan; the queue is left to the other workers.
C16_FailedWorkerStops ==
    /\ [](\A w \in WorkerIds :
            ~workers[w].result.pass => workers[w].pc = "returned")
    /\ [][ \A w \in WorkerIds :
             ~workers[w].result.pass =>
                /\ workers'[w] = workers[w]
                /\ \A i \in 1..Len(hist'.claimed) : i > Len(hist.claimed) =>
                      hist'.claimed[i][2] # w
       ]_vars

\* The worker that claimed the first plan failed on it, and the other two
\* plans were claimed after that.
C16_Witness ==
    /\ Len(hist.claimed) = 3
    /\ ~workers[hist.claimed[1][2]].result.pass
    /\ workers[hist.claimed[1][2]].result.count = 1
    /\ hist.after_fail = 2

\* C17: the ordinals are handed out as 0, 1, 2, ... in enumeration order, each
\* to one worker together with the plan of that ordinal, and when the
\* scenario passes every plan has been run to its end exactly once.
C17_PlansClaimedOnceInOrder ==
    /\ plans.next = Len(hist.claimed)
    /\ \A i \in 1..Len(hist.claimed) : hist.claimed[i][1] = i - 1
    /\ \A w \in WorkerIds : workers[w].pc = "dispatch" =>
          /\ workers[w].plan = scenario.plans[workers[w].n + 1]
          /\ hist.claimed[workers[w].n + 1] = <<workers[w].n, w>>
    /\ \A n \in Ordinals : hist.ran[n] <= 1
    /\ (main.pc = "done" /\ main.result.pass) => \A n \in Ordinals : hist.ran[n] = 1

\* A passing scenario of three plans, two of them run by the same worker.
C17_Witness ==
    /\ main.pc = "done"
    /\ main.result.pass
    /\ Len(hist.claimed) = 3
    /\ Cardinality({hist.claimed[i][2] : i \in 1..Len(hist.claimed)}) = 2

\* C18: every plan starts from a store equal to the baseline and an empty
\* cache for every client, and at every act its store and caches are those
\* of its own acts alone; the baseline is never modified.
C18_PlanExecutionsIsolated ==
    /\ [](\A w \in WorkerIds : workers[w].pc = "dispatch" =>
            workers[w].x = Replay(Baseline, workers[w].plan, workers[w].i))
    /\ [][scenario' = scenario]_vars

\* A worker starts its second plan on the baseline while another worker is
\* in the middle of a plan that has changed its own store.
C18_Witness ==
    \E w, v \in WorkerIds :
        /\ workers[w].pc = "dispatch"
        /\ workers[w].i = 0
        /\ workers[w].result.count > 0
        /\ workers[w].x = Baseline
        /\ workers[v].pc = "dispatch"
        /\ workers[v].i > 0
        /\ workers[v].x.state # scenario.store

\* C20: under fair scheduling a scenario run terminates: every worker
\* returns, none waits for the lock for ever, and check_execution ends with
\* its one result, a Pass or a Fail.
C20_ScenarioRunTerminates ==
    <>[]( /\ main.pc = "done"
          /\ \A w \in WorkerIds : workers[w].pc = "returned"
          /\ plans.lock = 0 )

\* A run that ended with the Fail of its second and last plan, both plans
\* claimed by one worker while the others found the queue empty.
C20_Witness ==
    /\ main.pc = "done"
    /\ ~main.result.pass
    /\ main.result.count = 2
    /\ Len(hist.claimed) = 2
    /\ hist.claimed[1][2] = hist.claimed[2][2]

====
